---- MODULE Spec2Model ----
(***************************************************************************)
(* Model of the pi-thermo controller (src/thermostat.py).                  *)
(*                                                                         *)
(* Two threads share one ThermostatController object:                      *)
(*   - the control thread runs ThermostatController.run: a loop of ticks   *)
(*     (read sensor, check_energy_saving_mode, control_heating,            *)
(*     update_outside_temperature, sleep) that ends in cleanup;            *)
(*   - the main thread serves HTTP requests one at a time                  *)
(*     (make_server(threaded=False)): set_energy_saving_override and       *)
(*     set_target_temp, and it runs signal_handler.                        *)
(* Python switches threads between bytecodes, so every read or write of a  *)
(* field both threads use is a step of its own; reads and writes of        *)
(* fields only one thread touches are grouped with the step before them.   *)
(*                                                                         *)
(* Time is the integer reading of time.time(), advanced by Tick at any     *)
(* point of either thread.  Temperatures are whole degrees Fahrenheit.     *)
(***************************************************************************)
EXTENDS Integers, Sequences, FiniteSets, TLC

(***************************************************************************)
(* Bounds of the model.  The time-valued entries of config.json are read   *)
(* by load_config from the user's file; the model gives them small values  *)
(* in clock units so that dwell gating, override expiry and the outside    *)
(* temperature cache all matter within the horizon.                        *)
(***************************************************************************)
Horizon == 5
MaxReadings == 5
MaxFed == 6
RunLength == 52
DefaultRun == 17
sensor_read_interval == 1
relay_min_on_time == 2
relay_min_off_time == 3
outside_temp_check_interval == 2
energy_saving_override_duration == 3

(* DEFAULT_CONFIG values kept as they are in the source. *)
DefaultTarget == 72
hysteresis == 1
energy_saving_min_temp == 60
MinSetpoint == 50
MaxSetpoint == 90
MaxEvents == 500
MaxRetries == 3

(* ThermalAnalysis: the sample buffer, the two scan windows and the rate buffers. *)
max_samples == 50
HeatingWindow == 10
CoolingWindow == 15
MaxRates == 20
\* DEFAULT_CONFIG["sensor_read_interval"], seconds
DefaultSpacing == 5

(* time.time() at construction: far from 0, the initial override_start_time
   and last_sensor_read, so that "now - 0" exceeds every interval. *)
Epoch == energy_saving_override_duration + outside_temp_check_interval + sensor_read_interval
MaxTime == Epoch + Horizon

(* Python's None, and a present value. *)
None == <<>>
Some(x) == <<x>>
Val(o) == o[1]

(* What the sensor can read, what wttr.in can report, what a client can post,
   and how a GPIO call can end: the thresholds 60, 61, 71 and 73 of the
   default configuration, and 72 inside the band. *)
SensorReadings == {60, 61, 71, 72, 73}
OutsideReadings == {61}
RequestedSetpoints == {<<"5", "0">>, <<"9", "1">>}
HwOutcomes == {"ok", "runtime_then_ok", "runtime_then_fail", "error"}

(* The narrower environments of the specifications that add the HTTP
   handlers: readings on both sides of the outside temperature and of the
   band, and hardware that works. *)
FewReadings == {61, 72}
\* Readings at the energy-saving floor and at its restore threshold.
FloorReadings == {60, 61}
HwWorks == {"ok"}

(* The readings of the specification that follows ThermalAnalysis through
   the ticks: the turn-on threshold and the middle of the band, one degree
   apart. *)
AdvisoryReadings == {71, 72}

(* What a caller can hand to set_target_temp: the two ends of the range, the
   values next to them, and texts float() cannot convert. *)
AllRequests == {<<"4", "9">>, <<"5", "0">>, <<"9", "0">>, <<"9", "1">>,
                <<"w", "a", "r", "m">>, <<>>}

(* What SpecThermal feeds ThermalAnalysis: readings two degrees apart, 5 or
   10 minutes after the one before.  SpecRates spaces them 15 or 25 minutes
   apart, so that two neighbouring samples give a rate inside the bands, and
   SpecRun feeds a long run of readings 400 s apart. *)
ThermalReadings == {60, 62}
SampleSteps == {300, 600}
RateSteps == {900, 1500}
RunSteps == {400}
\* The spacing of the samples under the default sensor_read_interval, seconds.
DefaultSteps == {DefaultSpacing}
\* By how much the room warms or cools in a run at the default spacing.
RunChanges == {-2, -1, 1, 2}
\* The limits GET /api/events is called with.
Limits == {0, 1, 2, 3}

VARIABLES
    now,                     \* time.time()
    running,                 \* ThermostatController.running
    pc,                      \* control thread: position in run
    loop_now,                \* run's local "now"
    last_sensor_read,
    current_temp_f,
    outside_temp,
    last_outside_temp_check,
    energy_saving_active,
    energy_saving_override,
    override_start_time,
    is_energy_saving,        \* control_heating's local
    target,                  \* control_heating's local, read under config_lock
    relay_state,             \* RelayControl.relay_state
    last_state_change,       \* RelayControl.last_state_change
    events,                  \* EventLogger.events (the type of each event)
    target_temp_f,           \* config["target_temp_f"]
    pcH,                     \* HTTP thread: position in the request handler
    temp_f_arg,              \* set_target_temp's parameter temp_f, as the characters received
    temp_f_float,            \* set_target_temp's local
    old_temp,                \* set_target_temp's local
    attempt,                 \* save_config's loop variable
    result,                  \* set_target_temp's return value, until the response is sent
    target_before,           \* history: config["target_temp_f"] when set_target_temp began
    saved,                   \* history: the current set_target_temp has called save_config
    tick,                    \* history: the relay and the log when the current tick began
    ev,                      \* history: the current check_energy_saving_mode evaluation
    decision,                \* history: what the last control_heating or cleanup did
    ov,                      \* history: start time of the last completed override call
    rearm,                   \* history: the override call began while the one before it was active
    fetch,                   \* history: the outside temperature fetches that failed since the last success
    status,                  \* get_status: the fields read so far
    seen,                    \* history: the completed-tick states during the get_status call
    listing,                 \* api_events: the limit received and the list get_events returned
    readings,                \* history: every reading handed to add_temperature_reading
    temperature_data,        \* ThermalAnalysis.temperature_data
    heating_rates,           \* ThermalAnalysis.heating_rates
    cooling_rates,           \* ThermalAnalysis.cooling_rates
    heating_rate_seconds_per_degree,
    cooling_rate_seconds_per_degree

vars == <<now, running, pc, loop_now, last_sensor_read, current_temp_f, outside_temp,
          last_outside_temp_check, energy_saving_active, energy_saving_override,
          override_start_time, is_energy_saving, target, relay_state, last_state_change,
          events, target_temp_f, pcH, temp_f_arg, temp_f_float, old_temp, attempt, result,
          target_before, saved, tick, ev, decision, ov, rearm, fetch, status, seen,
          listing, readings, temperature_data, heating_rates, cooling_rates,
          heating_rate_seconds_per_degree, cooling_rate_seconds_per_degree>>

ctlVars == <<pc, loop_now, last_sensor_read, current_temp_f, outside_temp,
             last_outside_temp_check, is_energy_saving, target, tick, ev>>
relayVars == <<relay_state, last_state_change, events, decision>>
savingVars == <<energy_saving_active, energy_saving_override, override_start_time>>
httpVars == <<pcH, temp_f_arg, temp_f_float, old_temp, attempt, result, target_before, saved,
              ov, rearm>>
statusVars == <<status, seen>>
thermalVars == <<readings, temperature_data, heating_rates, cooling_rates,
                 heating_rate_seconds_per_degree, cooling_rate_seconds_per_degree>>

----
(* RelayControl and EventLogger *)

\* RelayControl.time_in_state
TimeInState == now - last_state_change

\* Whether the GPIO calls of turn_on / turn_off went through: turn_on retries
\* GPIO.output once after a RuntimeError.
HwSucceeded(hw) == hw \in {"ok", "runtime_then_ok"}

\* Mutant of RecordedState: the record is updated before the hardware call.
RecordedStateEarly(hw, wanted, held) == wanted

\* The recorded relay_state after a hardware call with outcome hw that asked
\* for state wanted while the record held state held.
RecordedState(hw, wanted, held) == IF HwSucceeded(hw) THEN wanted ELSE held

\* The recorded last_state_change after that call.
RecordedChange(hw, held) == IF HwSucceeded(hw) THEN now ELSE held

\* Mutant of TurnOffGuard: turn_off also waits for the minimum ON time.
TurnOffGuardDwell == relay_state /\ TimeInState >= relay_min_on_time

\* turn_off touches the hardware only when the relay is recorded ON.
TurnOffGuard == relay_state

\* The record of a control_heating or cleanup run: the call it made (op), how
\* the hardware call went (hw: "none" when no hardware call was made), and
\* what it saw when it decided.
Record(op, hw, by) ==
    [op |-> op, hw |-> hw, by |-> by, pre_state |-> relay_state,
     pre_change |-> last_state_change, dwell |-> TimeInState,
     saving |-> is_energy_saving, temp |-> current_temp_f, target |-> target]

HwResult(hw) == IF HwSucceeded(hw) THEN "ok" ELSE "fail"

\* Mutant of TurnOnGuard: turn_on drives the hardware whatever the record says.
TurnOnGuardAlways == TRUE

\* turn_on touches the hardware only when the relay is recorded OFF (line 447).
TurnOnGuard == ~relay_state

\* RelayControl.turn_on
turn_on(hw, by) ==
    IF TurnOnGuard
    THEN /\ relay_state' = RecordedState(hw, TRUE, relay_state)
         /\ last_state_change' = RecordedChange(hw, last_state_change)
         /\ decision' = Record("turn_on", HwResult(hw), by)
    ELSE /\ UNCHANGED <<relay_state, last_state_change>>
         /\ decision' = Record("turn_on", "none", by)

\* RelayControl.turn_off; a failed hardware call is re-raised to the caller.
turn_off(hw, by) ==
    IF TurnOffGuard
    THEN /\ relay_state' = RecordedState(hw, FALSE, relay_state)
         /\ last_state_change' = RecordedChange(hw, last_state_change)
         /\ decision' = Record("turn_off", HwResult(hw), by)
    ELSE /\ UNCHANGED <<relay_state, last_state_change>>
         /\ decision' = Record("turn_off", "none", by)

\* turn_off raises exactly when its hardware call failed.
TurnOffRaises(hw) == TurnOffGuard /\ ~HwSucceeded(hw)

\* EventLogger.log_event on a deque(maxlen=500).
log_event(type) ==
    IF Len(events) >= MaxEvents THEN Append(Tail(events), type) ELSE Append(events, type)

\* Python's q[start:]: a negative start counts from the end of the list and
\* stops at its beginning; a start of 0 or more counts from the beginning.
SliceFrom(q, start) ==
    LET first == IF start < 0
                 THEN (IF Len(q) + start > 0 THEN Len(q) + start ELSE 0)
                 ELSE (IF start < Len(q) THEN start ELSE Len(q))
    IN SubSeq(q, first + 1, Len(q))

\* reversed(q)
Reversed(q) == [k \in 1 .. Len(q) |-> q[Len(q) + 1 - k]]

\* EventLogger.get_events, line 228: list(reversed(list(self.events)[-limit:]))
get_events(limit) == Reversed(SliceFrom(events, -limit))

\* The type of the event a heating cycle logs next: "on" and "off" by turns.
NextEventType ==
    IF events # <<>> /\ events[Len(events)] = "on" THEN "off" ELSE "on"

\* The EventLogger on its own: log_event is called for one heating event
\* after the other.
call_log_event ==
    /\ events' = log_event(NextEventType)
    /\ listing' = None
    /\ UNCHANGED <<now, running, ctlVars, relay_state, last_state_change, decision,
                   savingVars, target_temp_f, httpVars>>
    /\ UNCHANGED <<fetch, statusVars, thermalVars>>

\* api_events, lines 1045-1048: get_events is called with the limit of the
\* request and its list is the response.
api_events(Requested) ==
    /\ pcH = "idle"
    /\ \E limit \in Requested :
          listing' = Some([limit |-> limit, events |-> get_events(limit)])
    /\ UNCHANGED <<now, running, ctlVars, relayVars, savingVars, target_temp_f, httpVars>>
    /\ UNCHANGED <<fetch, statusVars, thermalVars>>

\* The RelayControl object on its own: any caller calls turn_on or turn_off
\* at any time, and the hardware call ends in any of its ways.
call_turn_on ==
    /\ \E hw \in HwOutcomes : turn_on(hw, "caller")
    /\ UNCHANGED <<now, running, ctlVars, events, savingVars, target_temp_f, httpVars>>
    /\ UNCHANGED <<listing, fetch, statusVars, thermalVars>>

call_turn_off ==
    /\ \E hw \in HwOutcomes : turn_off(hw, "caller")
    /\ UNCHANGED <<now, running, ctlVars, events, savingVars, target_temp_f, httpVars>>
    /\ UNCHANGED <<listing, fetch, statusVars, thermalVars>>

----
(* ThermalAnalysis.  update_temperature hands it every reading with the relay
   state (lines 728-729).  SpecAdvisory follows it through the ticks of the
   controller; the other specifications of the controller leave it out, and
   SpecThermal, SpecRates and SpecRun feed it directly.  A rate is the exact
   fraction time_change / temp_change in lowest terms. *)

RECURSIVE Gcd(_, _)
Gcd(a, b) == IF b = 0 THEN a ELSE Gcd(b, a % b)

\* The value num / den (den > 0, num >= 0) as a fraction in lowest terms.
Frac(num, den) == LET g == Gcd(num, den) IN [num |-> num \div g, den |-> den \div g]

FracAdd(a, b) == Frac(a.num * b.den + b.num * a.den, a.den * b.den)

RECURSIVE FracSum(_)
FracSum(rates) ==
    IF rates = <<>> THEN Frac(0, 1) ELSE FracAdd(Head(rates), FracSum(Tail(rates)))

\* sum(rates) / len(rates), lines 300 and 303
Mean(rates) == LET t == FracSum(rates) IN Frac(t.num, t.den * Len(rates))

\* Mutant of DequeAppend: nothing is ever evicted.
DequeAppendUnbounded(q, x, n) == Append(q, x)

\* append on a deque(maxlen=n)
DequeAppend(q, x, n) == IF Len(q) >= n THEN Append(Tail(q), x) ELSE Append(q, x)

Min(a, b) == IF a <= b THEN a ELSE b

\* Python's truth value of a temperature (lines 273 and 288): 0.0 is false.
Truthy(t) == t # 0

\* Mutant of HeatingPlausible: the band is closed at 300.
HeatingPlausibleClosed(r) == 300 * r.den <= r.num /\ r.num < 3600 * r.den

\* _calculate_rates, line 279: 300 < rate < 3600
HeatingPlausible(r) == 300 * r.den < r.num /\ r.num < 3600 * r.den

\* _calculate_rates, line 294: 600 < rate < 7200
CoolingPlausible(r) == 600 * r.den < r.num /\ r.num < 7200 * r.den

\* _calculate_rates, lines 273-279: sample j gives a heating rate for the
\* heating start at sample i (temp_change > 0.5, time_change > 60).
HeatingPair(data, i, j) ==
    LET temp_change == data[j].temperature_f - data[i].temperature_f
        time_change == data[j].timestamp - data[i].timestamp
    IN /\ Truthy(data[j].temperature_f) /\ Truthy(data[i].temperature_f)
       /\ 2 * temp_change > 1 /\ time_change > 60
       /\ HeatingPlausible(Frac(time_change, temp_change))

\* _calculate_rates, lines 288-294 (temp_change > 0.5, time_change > 120)
CoolingPair(data, i, j) ==
    LET temp_change == data[i].temperature_f - data[j].temperature_f
        time_change == data[j].timestamp - data[i].timestamp
    IN /\ Truthy(data[j].temperature_f) /\ Truthy(data[i].temperature_f)
       /\ 2 * temp_change > 1 /\ time_change > 120
       /\ CoolingPlausible(Frac(time_change, temp_change))

\* The samples range(i, min(i + window, len(data))) scans, counted from 1.
Window(data, i, window) == i .. Min(i + window - 1, Len(data))

\* _calculate_rates, lines 269-281: the heating rates after the scan of the
\* samples from i on; each heating start (off at i-1, on at i) appends the
\* rate of the first sample of its window that gives one.
RECURSIVE ScanHeating(_, _, _)
ScanHeating(data, i, rates) ==
    IF i > Len(data) THEN rates
    ELSE LET found == {j \in Window(data, i, HeatingWindow) : HeatingPair(data, i, j)}
             first == CHOOSE j \in found : \A k \in found : j <= k
         IN IF ~data[i-1].heating_on /\ data[i].heating_on /\ found # {}
            THEN ScanHeating(data, i + 1,
                     DequeAppend(rates,
                         Frac(data[first].timestamp - data[i].timestamp,
                              data[first].temperature_f - data[i].temperature_f),
                         MaxRates))
            ELSE ScanHeating(data, i + 1, rates)

\* _calculate_rates, lines 284-296
RECURSIVE ScanCooling(_, _, _)
ScanCooling(data, i, rates) ==
    IF i > Len(data) THEN rates
    ELSE LET found == {j \in Window(data, i, CoolingWindow) : CoolingPair(data, i, j)}
             first == CHOOSE j \in found : \A k \in found : j <= k
         IN IF data[i-1].heating_on /\ ~data[i].heating_on /\ found # {}
            THEN ScanCooling(data, i + 1,
                     DequeAppend(rates,
                         Frac(data[first].timestamp - data[i].timestamp,
                              data[i].temperature_f - data[first].temperature_f),
                         MaxRates))
            ELSE ScanCooling(data, i + 1, rates)

\* Mutant of Published: the estimate appears with the second rate.
PublishedEarly(rates, held) == IF Len(rates) >= 2 THEN Some(Mean(rates)) ELSE held

\* The estimate published at lines 299-303: the mean once 3 rates exist.
Published(rates, held) == IF Len(rates) >= 3 THEN Some(Mean(rates)) ELSE held

\* time.time() of the newest sample.
LastSampleTime ==
    IF temperature_data = <<>> THEN Epoch
    ELSE temperature_data[Len(temperature_data)].timestamp

\* The body of ThermalAnalysis.add_temperature_reading, lines 250-262, with
\* _calculate_rates.
AddReading(temp_f, heating_on) ==
    LET reading == [timestamp |-> now, temperature_f |-> temp_f,
                    heating_on |-> heating_on]
        data == DequeAppend(temperature_data, reading, max_samples)
        h == IF Len(data) >= 3 THEN ScanHeating(data, 2, heating_rates)
             ELSE heating_rates
        c == IF Len(data) >= 3 THEN ScanCooling(data, 2, cooling_rates)
             ELSE cooling_rates
    IN /\ readings' = Append(readings, reading)
       /\ temperature_data' = data
       /\ heating_rates' = h
       /\ cooling_rates' = c
       /\ heating_rate_seconds_per_degree' =
             IF Len(data) >= 3 THEN Published(h, heating_rate_seconds_per_degree)
             ELSE heating_rate_seconds_per_degree
       /\ cooling_rate_seconds_per_degree' =
             IF Len(data) >= 3 THEN Published(c, cooling_rate_seconds_per_degree)
             ELSE cooling_rate_seconds_per_degree

\* ThermalAnalysis.add_temperature_reading called with a reading from Temps
\* and a relay state from Relay, later than the reading before it.
add_temperature_reading(Temps, Relay, Limit) ==
    /\ Len(readings) < Limit
    /\ readings = <<>> \/ now > LastSampleTime
    /\ \E temp_f \in Temps, heating_on \in Relay : AddReading(temp_f, heating_on)
    /\ UNCHANGED <<now, running, ctlVars, relayVars, savingVars, target_temp_f, httpVars>>
    /\ UNCHANGED <<listing, fetch, statusVars>>

\* The readings of a long run (SpecRun): the relay is switched once, and after
\* that the room warms by two degrees once (relay ON) or cools by two degrees
\* once (relay OFF).
RunStart == 61

Switched == readings # <<>> /\ readings[Len(readings)].heating_on # readings[1].heating_on

RunRelay ==
    IF readings = <<>> \/ ~Switched THEN BOOLEAN
    ELSE {readings[Len(readings)].heating_on}

RunTemps ==
    IF readings = <<>> THEN {RunStart}
    ELSE LET last == readings[Len(readings)]
         IN IF Switched /\ last.temperature_f = RunStart
            THEN {RunStart, IF last.heating_on THEN RunStart + 2 ELSE RunStart - 2}
            ELSE {last.temperature_f}

\* Time passes between two readings.
Elapse(Steps, Limit) ==
    /\ Len(readings) < Limit
    /\ readings # <<>> /\ now = LastSampleTime
    /\ \E d \in Steps : now' = now + d
    /\ UNCHANGED <<running, ctlVars, relayVars, savingVars, target_temp_f, httpVars>>
    /\ UNCHANGED <<listing, fetch, statusVars, thermalVars>>

----
(* The control thread: ThermostatController.run and what it calls *)

NoTick == [live |-> FALSE, read_ok |-> FALSE, relay_state |-> FALSE,
           last_state_change |-> 0, nevents |-> 0, temp |-> None, active |-> FALSE,
           target_temp_f |-> 0, deferred |-> FALSE, unsaved |-> "no"]
NoEv == [live |-> FALSE, done |-> FALSE, window |-> FALSE, expired |-> FALSE,
         boundary |-> FALSE, disturbed |-> FALSE, before |-> FALSE, active |-> FALSE,
         override |-> FALSE]
NoDecision == [op |-> "none", hw |-> "none", by |-> "none", pre_state |-> FALSE,
               pre_change |-> 0, dwell |-> 0, saving |-> FALSE, temp |-> None,
               target |-> 0]

\* run, lines 925-929: leave the loop once running is false, else start a
\* tick when the sensor interval has passed.
SensorDue == now - last_sensor_read >= sensor_read_interval

RunLoop ==
    /\ pc = "loop"
    /\ IF ~running
       THEN /\ pc' = "cleanup"
            /\ UNCHANGED <<loop_now, tick>>
       ELSE /\ loop_now' = now
            /\ IF SensorDue
               THEN /\ pc' = "sense"
                    /\ tick' = [live |-> TRUE, read_ok |-> FALSE,
                                relay_state |-> relay_state,
                                last_state_change |-> last_state_change,
                                nevents |-> Len(events),
                                temp |-> current_temp_f,
                                active |-> energy_saving_active,
                                target_temp_f |-> target_temp_f,
                                deferred |-> tick.deferred,
                                unsaved |-> "no"]
               ELSE /\ pc' = "sleep"
                    /\ UNCHANGED tick
    /\ UNCHANGED <<now, running, last_sensor_read, current_temp_f, outside_temp,
                   last_outside_temp_check, is_energy_saving, target, ev>>
    /\ UNCHANGED <<relayVars, savingVars, target_temp_f, httpVars>>
    /\ UNCHANGED <<listing, fetch, statusVars, thermalVars>>

\* Mutant of CallsControl: control_heating runs on a stale reading.
AlwaysCallsControl(read_ok) == TRUE

\* run, line 930: control_heating is called only after a successful read.
CallsControl(read_ok) == read_ok

\* update_temperature: the sensor returns a reading or (None, None); a
\* reading is handed to ThermalAnalysis with the relay state (lines 728-729)
\* in the specifications that follow the analysis (Analysis), and the
\* analysis is left out of the others.
update_temperature(Readings, Analysis) ==
    /\ pc = "sense"
    /\ \E r \in {None} \cup {Some(t) : t \in Readings} :
          /\ current_temp_f' = IF r # None THEN r ELSE current_temp_f
          /\ tick' = [tick EXCEPT !.read_ok = (r # None)]
          /\ pc' = IF CallsControl(r # None) THEN "ctl" ELSE "post"
          /\ IF r # None /\ Analysis
             THEN AddReading(Val(r), relay_state)
             ELSE UNCHANGED thermalVars
    /\ UNCHANGED <<now, running, loop_now, last_sensor_read, outside_temp,
                   last_outside_temp_check, is_energy_saving, target, ev>>
    /\ UNCHANGED <<relayVars, savingVars, target_temp_f, httpVars>>
    /\ UNCHANGED <<listing, fetch, statusVars>>

\* Mutant of OverrideExpired: the boundary instant is not yet expired.
OverrideExpiredLate == now - override_start_time > energy_saving_override_duration

\* check_energy_saving_mode, line 756
OverrideExpired == now - override_start_time >= energy_saving_override_duration

\* check_energy_saving_mode, line 766
BothKnown == outside_temp # None /\ current_temp_f # None

\* Mutant of OutsideWarmer: equal temperatures do not suppress.
OutsideStrictlyWarmer == Val(outside_temp) > Val(current_temp_f)

\* check_energy_saving_mode, line 767
OutsideWarmer == Val(outside_temp) >= Val(current_temp_f)

\* Mutant of ActiveWhenUnknown: missing data switches suppression on.
ActiveSetWhenUnknown(held) == TRUE

\* check_energy_saving_mode, lines 766-773: with a temperature unknown neither
\* assignment to energy_saving_active runs.
ActiveWhenUnknown(held) == held

\* Whether time t lies in the window of an override call that returned with
\* start time o (None: no call has returned yet).
InWindow(o, t) == o # None /\ t < Val(o) + energy_saving_override_duration

\* One step of check_energy_saving_mode, called by control_heating (line 790).
\* The other thread can run between any two of them.
\*   "ctl"      control_heating line 785, then lines 753-756: the override flag
\*              and its start time are read;
\*   "ce_clear" line 757: an expired override is cleared;
\*   "ce_test"  line 761: the override flag is read again;
\*   "ce_force" lines 762-763: an active override wins, the result is False;
\*   "ce_eval"  lines 766-773: suppression is decided from the temperatures,
\*              and kept as it was when one of them is unknown.
check_energy_saving_mode ==
    /\ pc \in {"ctl", "ce_clear", "ce_test", "ce_force", "ce_eval"}
    /\ CASE pc = "ctl" ->
              /\ IF current_temp_f = None
                 THEN /\ pc' = "post"
                      /\ ev' = ev
                 ELSE /\ pc' = IF energy_saving_override /\ OverrideExpired
                               THEN "ce_clear" ELSE "ce_test"
                      /\ ev' = [NoEv EXCEPT
                                  !.live = TRUE,
                                  !.window = InWindow(ov, now),
                                  !.expired =
                                      /\ energy_saving_override
                                      /\ now >= override_start_time
                                                  + energy_saving_override_duration,
                                  !.boundary =
                                      (now = override_start_time
                                               + energy_saving_override_duration),
                                  !.before = energy_saving_active]
              /\ UNCHANGED <<savingVars, is_energy_saving>>
         [] pc = "ce_clear" ->
              /\ energy_saving_override' = FALSE
              /\ pc' = "ce_test"
              /\ UNCHANGED <<energy_saving_active, override_start_time,
                             is_energy_saving, ev>>
         [] pc = "ce_test" ->
              /\ pc' = IF energy_saving_override THEN "ce_force" ELSE "ce_eval"
              /\ UNCHANGED <<savingVars, is_energy_saving, ev>>
         [] pc = "ce_force" ->
              /\ energy_saving_active' = FALSE
              /\ is_energy_saving' = FALSE
              /\ ev' = [ev EXCEPT !.done = TRUE, !.active = FALSE,
                                  !.override = energy_saving_override]
              /\ pc' = "cfg"
              /\ UNCHANGED <<energy_saving_override, override_start_time>>
         [] pc = "ce_eval" ->
              /\ energy_saving_active' =
                    IF BothKnown THEN OutsideWarmer
                    ELSE ActiveWhenUnknown(energy_saving_active)
              /\ is_energy_saving' = (BothKnown /\ OutsideWarmer)
              /\ ev' = [ev EXCEPT !.done = TRUE, !.active = energy_saving_active',
                                  !.override = energy_saving_override]
              /\ pc' = "cfg"
              /\ UNCHANGED <<energy_saving_override, override_start_time>>
    /\ UNCHANGED <<now, running, loop_now, last_sensor_read, current_temp_f, outside_temp,
                   last_outside_temp_check, target, tick>>
    /\ UNCHANGED <<relayVars, target_temp_f, httpVars>>
    /\ UNCHANGED <<listing, fetch, statusVars, thermalVars>>

\* History: the target read at lines 792-793 is one that set_target_temp has
\* written at line 872 over a different one and whose save_config has not
\* yet returned.
ReadsUnsaved == pcH \in {"st_save", "st_revert"} /\ target_temp_f # old_temp

\* History: what has become of the save of the target the tick has read.
Settled(t, outcome) ==
    IF t.unsaved = "pending" THEN [t EXCEPT !.unsaved = outcome] ELSE t

\* control_heating, lines 792-797: the configuration is read under config_lock.
read_config ==
    /\ pc = "cfg"
    /\ target' = target_temp_f
    /\ pc' = "decide"
    /\ ev' = NoEv
    /\ tick' = [tick EXCEPT !.unsaved = IF ReadsUnsaved THEN "pending" ELSE "no"]
    /\ UNCHANGED <<now, running, loop_now, last_sensor_read, current_temp_f, outside_temp,
                   last_outside_temp_check, is_energy_saving>>
    /\ UNCHANGED <<relayVars, savingVars, target_temp_f, httpVars>>
    /\ UNCHANGED <<listing, fetch, statusVars, thermalVars>>

\* Mutant of DwellSatisfied: only the instant the dwell ends will do.
DwellExactly(min) == TimeInState = min

\* Mutant of DwellSatisfied: the dwell test is left out.
DwellNotChecked(min) == TRUE

\* The dwell test of lines 804, 810, 821 and 827.
DwellSatisfied(min) == TimeInState >= min

\* Mutant of NormalTurnOff: the relay is switched OFF at the target, inside
\* the band.
NormalTurnOffAtTarget(temp, tgt) == temp >= tgt

\* Mutant of NormalTurnOff: once a heating rate is published the relay is
\* switched OFF a degree early.
NormalTurnOffAnticipating(temp, tgt) ==
    temp >= tgt + hysteresis - (IF heating_rate_seconds_per_degree # None THEN 1 ELSE 0)

\* Mutant of NormalTurnOn: an open boundary.
NormalTurnOnOpen(temp, tgt) == temp < tgt - hysteresis

\* Mutant of SavingTurnOff: the normal target is used in energy-saving mode.
SavingTurnOffAtTarget(temp) == temp >= DefaultTarget + hysteresis

\* Mutant of SavingTurnOn: energy saving heats below the normal threshold.
SavingTurnOnAtTarget(temp) == temp <= DefaultTarget - hysteresis

\* The thresholds of lines 821 and 827 (normal mode), 802 and 808 (energy saving).
NormalTurnOff(temp, tgt) == temp >= tgt + hysteresis
NormalTurnOn(temp, tgt) == temp <= tgt - hysteresis
SavingTurnOn(temp) == temp <= energy_saving_min_temp
SavingTurnOff(temp) == temp >= energy_saving_min_temp + 1

\* control_heating, lines 799-830: the call it makes on the relay.
ControlDecision ==
    LET temp == Val(current_temp_f) IN
    IF is_energy_saving
    THEN IF SavingTurnOn(temp) /\ ~relay_state
         THEN (IF DwellSatisfied(relay_min_off_time) THEN "turn_on" ELSE "none")
         ELSE IF relay_state /\ SavingTurnOff(temp)
              THEN (IF DwellSatisfied(relay_min_on_time) THEN "turn_off" ELSE "none")
              ELSE "none"
    ELSE IF relay_state
         THEN (IF NormalTurnOff(temp, target) /\ DwellSatisfied(relay_min_on_time)
               THEN "turn_off" ELSE "none")
         ELSE (IF NormalTurnOn(temp, target) /\ DwellSatisfied(relay_min_off_time)
               THEN "turn_on" ELSE "none")

\* control_heating, lines 799-830.  turn_on swallows a hardware failure and the
\* "on" event is logged all the same; turn_off re-raises it, which skips the
\* "off" event and takes run to its except clause and on to cleanup.
control_heating(Outcomes) ==
    /\ pc = "decide"
    /\ \E hw \in Outcomes :
          LET d == ControlDecision IN
          IF d = "turn_on"
          THEN /\ turn_on(hw, "tick")
               /\ events' = log_event("on")
               /\ pc' = "post"
          ELSE IF d = "turn_off"
          THEN /\ turn_off(hw, "tick")
               /\ events' = IF TurnOffRaises(hw) THEN events ELSE log_event("off")
               /\ pc' = IF TurnOffRaises(hw) THEN "cleanup" ELSE "post"
          ELSE /\ decision' = Record("none", "none", "tick")
               /\ UNCHANGED <<relay_state, last_state_change, events>>
               /\ pc' = "post"
    /\ UNCHANGED <<now, running, loop_now, last_sensor_read, current_temp_f, outside_temp,
                   last_outside_temp_check, is_energy_saving, target, tick, ev>>
    /\ UNCHANGED <<savingVars, target_temp_f, httpVars>>
    /\ UNCHANGED <<listing, fetch, statusVars, thermalVars>>

\* History: the tick that is ending left the relay alone, in normal mode,
\* only because the dwell had not been reached.
DeferredByDwell ==
    /\ decision.by = "tick" /\ decision.op = "none" /\ ~decision.saving
    /\ decision.dwell < (IF decision.pre_state THEN relay_min_on_time
                                                ELSE relay_min_off_time)
    /\ IF decision.pre_state
       THEN NormalTurnOff(Val(decision.temp), decision.target)
       ELSE NormalTurnOn(Val(decision.temp), decision.target)

\* No outside temperature fetch has failed since the last one that succeeded.
NoFetch == [failed |-> FALSE, active |-> FALSE]

\* The fields get_status reports that a tick writes, as they stand.
Committed == [temp |-> current_temp_f, relay |-> relay_state,
              active |-> energy_saving_active]

\* The HTTP thread is inside get_status.
InGetStatus == pcH \in {"gs_relay", "gs_active", "gs_return"}

\* update_outside_temperature, line 742
OutsideDue == \/ now - last_outside_temp_check >= outside_temp_check_interval
              \/ outside_temp = None

\* run, lines 933-936: the tick ends; update_outside_temperature fetches when
\* the cache is stale or empty, and keeps the old value when the fetch fails.
end_tick ==
    /\ pc = "post"
    /\ last_sensor_read' = loop_now
    /\ IF OutsideDue
       THEN \E o \in {None} \cup {Some(t) : t \in OutsideReadings} :
               /\ outside_temp' = IF o # None THEN o ELSE outside_temp
               /\ last_outside_temp_check' =
                     IF o # None THEN now ELSE last_outside_temp_check
               /\ fetch' = IF o # None THEN NoFetch
                            ELSE IF outside_temp # None /\ ~fetch.failed
                                 THEN [failed |-> TRUE, active |-> energy_saving_active]
                                 ELSE fetch
       ELSE UNCHANGED <<outside_temp, last_outside_temp_check, fetch>>
    /\ seen' = IF InGetStatus THEN seen \cup {Committed} ELSE seen
    /\ pc' = "sleep"
    /\ tick' = [NoTick EXCEPT !.deferred = DeferredByDwell]
    /\ decision' = NoDecision
    /\ UNCHANGED ev
    /\ is_energy_saving' = FALSE
    /\ target' = 0
    /\ UNCHANGED <<now, running, loop_now, current_temp_f>>
    /\ UNCHANGED <<relay_state, last_state_change, events, savingVars, target_temp_f,
                   httpVars>>
    /\ UNCHANGED <<status, listing, thermalVars>>

\* run, line 944
sleep ==
    /\ pc = "sleep"
    /\ pc' = "loop"
    /\ UNCHANGED <<now, running, loop_now, last_sensor_read, current_temp_f, outside_temp,
                   last_outside_temp_check, is_energy_saving, target, tick, ev>>
    /\ UNCHANGED <<relayVars, savingVars, target_temp_f, httpVars>>
    /\ UNCHANGED <<listing, fetch, statusVars, thermalVars>>

\* cleanup, lines 963-968: the relay is turned off whatever its dwell; a
\* failure of the hardware call is logged and swallowed.
cleanup(Outcomes) ==
    /\ pc = "cleanup"
    /\ \E hw \in Outcomes : turn_off(hw, "cleanup")
    /\ pc' = "done"
    /\ UNCHANGED events
    /\ UNCHANGED <<now, running, loop_now, last_sensor_read, current_temp_f, outside_temp,
                   last_outside_temp_check, is_energy_saving, target, tick, ev>>
    /\ UNCHANGED <<savingVars, target_temp_f, httpVars>>
    /\ UNCHANGED <<listing, fetch, statusVars, thermalVars>>

\* time.time() moves on.
Tick ==
    /\ now < MaxTime
    /\ now' = now + 1
    /\ UNCHANGED <<running, ctlVars, relayVars, savingVars, target_temp_f, httpVars>>
    /\ UNCHANGED <<listing, fetch, statusVars, thermalVars>>

----
(* The main thread: signal_handler and the HTTP handlers *)

\* signal_handler
signal_handler ==
    /\ running
    /\ running' = FALSE
    /\ UNCHANGED <<now, ctlVars, relayVars, savingVars, target_temp_f, httpVars>>
    /\ UNCHANGED <<listing, fetch, statusVars, thermalVars>>

\* A step of set_energy_saving_override that falls inside an evaluation of
\* check_energy_saving_mode is noted in the evaluation's record.
Disturbed(e) == IF e.live /\ ~e.done THEN [e EXCEPT !.disturbed = TRUE] ELSE e

\* The override of the last completed call is in force: the flag is set, the
\* start time is that call's, and its duration has not passed.
StillActive ==
    /\ ov # None /\ energy_saving_override /\ override_start_time = Val(ov)
    /\ now < Val(ov) + energy_saving_override_duration

\* set_energy_saving_override, line 777
override_set_flag ==
    /\ pcH = "idle"
    /\ energy_saving_override' = TRUE
    /\ pcH' = "ov_start"
    /\ ev' = Disturbed(ev)
    /\ rearm' = IF StillActive THEN "begun" ELSE "none"
    /\ UNCHANGED <<now, running, pc, loop_now, last_sensor_read, current_temp_f,
                   outside_temp, last_outside_temp_check, is_energy_saving, target, tick>>
    /\ UNCHANGED <<relayVars, energy_saving_active, override_start_time, target_temp_f,
                   temp_f_arg, temp_f_float, old_temp, attempt, result,
                   target_before, saved, ov>>
    /\ UNCHANGED <<listing, fetch, statusVars, thermalVars>>

\* set_energy_saving_override, line 778
override_set_start ==
    /\ pcH = "ov_start"
    /\ override_start_time' = now
    /\ pcH' = "ov_active"
    /\ ev' = Disturbed(ev)
    /\ UNCHANGED <<now, running, pc, loop_now, last_sensor_read, current_temp_f,
                   outside_temp, last_outside_temp_check, is_energy_saving, target, tick>>
    /\ UNCHANGED <<relayVars, energy_saving_active, energy_saving_override, target_temp_f,
                   temp_f_arg, temp_f_float, old_temp, attempt, result,
                   target_before, saved, ov, rearm>>
    /\ UNCHANGED <<listing, fetch, statusVars, thermalVars>>

\* set_energy_saving_override, line 779, and its return
override_clear_active ==
    /\ pcH = "ov_active"
    /\ energy_saving_active' = FALSE
    /\ pcH' = "idle"
    /\ ov' = Some(override_start_time)
    /\ rearm' = IF rearm = "begun" THEN "done" ELSE "none"
    /\ ev' = Disturbed(ev)
    /\ UNCHANGED <<now, running, pc, loop_now, last_sensor_read, current_temp_f,
                   outside_temp, last_outside_temp_check, is_energy_saving, target, tick>>
    /\ UNCHANGED <<relayVars, energy_saving_override, override_start_time, target_temp_f,
                   temp_f_arg, temp_f_float, old_temp, attempt, result,
                   target_before, saved>>
    /\ UNCHANGED <<listing, fetch, statusVars, thermalVars>>

\* get_status has read nothing yet.
NoStatus == [temp |-> None, relay |-> FALSE, active |-> FALSE]

\* The state the last completed tick left: the one the running tick began
\* with, or the present one when no tick is running.
LastCompleted ==
    IF tick.live
    THEN [temp |-> tick.temp, relay |-> tick.relay_state, active |-> tick.active]
    ELSE Committed

\* get_status, lines 903-909, called by api_status: the fields are read one
\* after the other with no lock held, and the control thread can run between
\* any two reads.
\*   "idle"      line 903: current_temp_f is read;
\*   "gs_relay"  line 906: relay.get_state();
\*   "gs_active" line 908: energy_saving_active;
\*   "gs_return" the dictionary is returned and sent.
get_status ==
    /\ pcH \in {"idle", "gs_relay", "gs_active", "gs_return"}
    /\ CASE pcH = "idle" ->
              /\ status' = [NoStatus EXCEPT !.temp = current_temp_f]
              /\ seen' = {LastCompleted}
              /\ pcH' = "gs_relay"
         [] pcH = "gs_relay" ->
              /\ status' = [status EXCEPT !.relay = relay_state]
              /\ pcH' = "gs_active"
              /\ UNCHANGED seen
         [] pcH = "gs_active" ->
              /\ status' = [status EXCEPT !.active = energy_saving_active]
              /\ pcH' = "gs_return"
              /\ UNCHANGED seen
         [] pcH = "gs_return" ->
              /\ status' = NoStatus
              /\ seen' = {}
              /\ pcH' = "idle"
    /\ UNCHANGED <<now, running, ctlVars, relayVars, savingVars, target_temp_f>>
    /\ UNCHANGED <<temp_f_arg, temp_f_float, old_temp, attempt, result, target_before,
                   saved, ov, rearm>>
    /\ UNCHANGED <<listing, fetch, thermalVars>>

\* Mutant of InRange: the two ends of the range are refused.
InRangeOpen(v) == MinSetpoint < v /\ v < MaxSetpoint

\* set_target_temp, line 864
InRange(v) == MinSetpoint <= v /\ v <= MaxSetpoint

\* float(temp_f), line 860, on the texts of the model: a non-empty string of
\* decimal digits converts to the number it denotes, any other text raises
\* ValueError.
IsDigit(c) == c \in {"0", "1", "2", "3", "4", "5", "6", "7", "8", "9"}

DigitValue(c) ==
    CASE c = "0" -> 0 [] c = "1" -> 1 [] c = "2" -> 2 [] c = "3" -> 3 [] c = "4" -> 4
      [] c = "5" -> 5 [] c = "6" -> 6 [] c = "7" -> 7 [] c = "8" -> 8 [] c = "9" -> 9

Convertible(text) == text # <<>> /\ \A k \in 1 .. Len(text) : IsDigit(text[k])

RECURSIVE float(_)
float(text) ==
    IF text = <<>> THEN 0
    ELSE 10 * float(SubSeq(text, 1, Len(text) - 1)) + DigitValue(text[Len(text)])

\* set_target_temp, lines 860-872 and 885-887: a text float() cannot convert
\* and an out-of-range value are refused; an in-range value is written to the
\* configuration under config_lock.
set_target_temp(Requests) ==
    /\ pcH = "idle"
    /\ \E text \in Requests :
          /\ temp_f_arg' = text
          /\ target_before' = target_temp_f
          /\ IF ~Convertible(text)
             THEN /\ result' = FALSE
                  /\ pcH' = "st_return"
                  /\ UNCHANGED <<temp_f_float, old_temp, target_temp_f>>
             ELSE /\ temp_f_float' = float(text)
                  /\ IF InRange(float(text))
                     THEN /\ old_temp' = target_temp_f
                          /\ target_temp_f' = float(text)
                          /\ pcH' = "st_save"
                          /\ UNCHANGED result
                     ELSE /\ result' = FALSE
                          /\ pcH' = "st_return"
                          /\ UNCHANGED <<old_temp, target_temp_f>>
    /\ UNCHANGED <<now, running, ctlVars, relayVars, savingVars, attempt, saved, ov, rearm>>
    /\ UNCHANGED <<listing, fetch, statusVars, thermalVars>>

\* save_config, called at line 876: one attempt to write the file; it gives up
\* after max_retries.
save_config ==
    /\ pcH = "st_save"
    /\ saved' = TRUE
    /\ \E written \in BOOLEAN :
          IF written
          THEN /\ result' = TRUE
               /\ pcH' = "st_return"
               /\ tick' = Settled(tick, "no")
               /\ UNCHANGED attempt
          ELSE /\ attempt' = attempt + 1
               /\ pcH' = IF attempt + 1 >= MaxRetries THEN "st_revert" ELSE "st_save"
               /\ UNCHANGED <<result, tick>>
    /\ UNCHANGED <<now, running, pc, loop_now, last_sensor_read, current_temp_f,
                   outside_temp, last_outside_temp_check, is_energy_saving, target, ev>>
    /\ UNCHANGED <<relayVars, savingVars, target_temp_f,
                   temp_f_arg, temp_f_float, old_temp, target_before, ov, rearm>>
    /\ UNCHANGED <<listing, fetch, statusVars, thermalVars>>

\* Mutant of RevertedTarget: the failed value stays in the configuration.
NotReverted == temp_f_float

\* set_target_temp, line 883: the value written back after a failed save.
RevertedTarget == old_temp

\* set_target_temp, lines 880-884
revert_target ==
    /\ pcH = "st_revert"
    /\ target_temp_f' = RevertedTarget
    /\ result' = FALSE
    /\ pcH' = "st_return"
    /\ tick' = Settled(tick, "rolled_back")
    /\ UNCHANGED <<now, running, pc, loop_now, last_sensor_read, current_temp_f,
                   outside_temp, last_outside_temp_check, is_energy_saving, target, ev>>
    /\ UNCHANGED <<relayVars, savingVars, temp_f_arg, temp_f_float,
                   old_temp, attempt, target_before, saved, ov, rearm>>
    /\ UNCHANGED <<listing, fetch, statusVars, thermalVars>>

\* api_setpoint, lines 1026-1031: the response is sent and the call is over.
respond ==
    /\ pcH = "st_return"
    /\ pcH' = "idle"
    /\ temp_f_float' = 0
    /\ old_temp' = 0
    /\ attempt' = 0
    /\ result' = FALSE
    /\ target_before' = 0
    /\ temp_f_arg' = <<>>
    /\ saved' = FALSE
    /\ UNCHANGED <<now, running, ctlVars, relayVars, savingVars, target_temp_f, ov, rearm>>
    /\ UNCHANGED <<listing, fetch, statusVars, thermalVars>>

----
(* The program *)

\* ThermostatController.__init__ and RelayControl.__init__: the relay is OFF
\* since construction, no reading yet, and the first outside temperature
\* fetch has succeeded or failed.
Init ==
    /\ now = Epoch
    /\ running = TRUE
    /\ pc = "loop"
    /\ loop_now = 0
    /\ last_sensor_read = 0
    /\ current_temp_f = None
    /\ outside_temp \in {None} \cup {Some(t) : t \in OutsideReadings}
    /\ last_outside_temp_check = IF outside_temp = None THEN 0 ELSE Epoch
    /\ energy_saving_active = FALSE
    /\ energy_saving_override = FALSE
    /\ override_start_time = 0
    /\ is_energy_saving = FALSE
    /\ target = 0
    /\ relay_state = FALSE
    /\ last_state_change = Epoch
    /\ events = <<>>
    /\ target_temp_f = DefaultTarget
    /\ pcH = "idle"
    /\ temp_f_float = 0
    /\ old_temp = 0
    /\ attempt = 0
    /\ result = FALSE
    /\ target_before = 0
    /\ temp_f_arg = <<>>
    /\ saved = FALSE
    /\ tick = NoTick
    /\ ev = NoEv
    /\ decision = NoDecision
    /\ ov = None
    /\ rearm = "none"
    /\ fetch = NoFetch
    /\ listing = None
    /\ status = NoStatus
    /\ seen = {}
    /\ readings = <<>>
    /\ temperature_data = <<>>
    /\ heating_rates = <<>>
    /\ cooling_rates = <<>>
    /\ heating_rate_seconds_per_degree = None
    /\ cooling_rate_seconds_per_degree = None

\* The control thread
Control(Readings, Outcomes, Analysis) ==
    \/ RunLoop
    \/ update_temperature(Readings, Analysis)
    \/ check_energy_saving_mode
    \/ read_config
    \/ control_heating(Outcomes)
    \/ end_tick
    \/ sleep

\* The controller on its own, until a signal stops it.
Next ==
    \/ Control(SensorReadings, HwOutcomes, FALSE)
    \/ cleanup(HwOutcomes)
    \/ signal_handler
    \/ Tick

Spec == Init /\ [][Next]_vars

\* The controller with hardware that works, up to its shutdown.
NextShutdown ==
    \/ Control(FewReadings, HwWorks, FALSE)
    \/ cleanup(HwWorks)
    \/ signal_handler
    \/ Tick

SpecShutdown == Init /\ [][NextShutdown]_vars

\* The control thread is scheduled as long as it has a step to take.
FairSpec == Spec /\ WF_vars(Control(SensorReadings, HwOutcomes, FALSE) \/ cleanup(HwOutcomes))

\* The same, and time passes.
LiveSpec == FairSpec /\ WF_vars(Tick)

\* The controller with clients posting energy-saving overrides.
NextOverride ==
    \/ Control(FewReadings, HwWorks, FALSE)
    \/ override_set_flag
    \/ override_set_start
    \/ override_clear_active
    \/ Tick

SpecOverride == Init /\ [][NextOverride]_vars

\* The controller with clients posting setpoints.
NextSetpoint ==
    \/ Control(FewReadings, HwWorks, FALSE)
    \/ set_target_temp(RequestedSetpoints)
    \/ save_config
    \/ revert_target
    \/ respond
    \/ Tick

SpecSetpoint == Init /\ [][NextSetpoint]_vars

\* The controller near the energy-saving floor, with clients posting
\* setpoints.
NextFloor ==
    \/ Control(FloorReadings, HwWorks, FALSE)
    \/ set_target_temp(RequestedSetpoints)
    \/ save_config
    \/ revert_target
    \/ respond
    \/ Tick

SpecFloor == Init /\ [][NextFloor]_vars

\* The controller with clients asking for the status.
NextStatus ==
    \/ Control(FewReadings, HwWorks, FALSE)
    \/ get_status
    \/ Tick

SpecStatus == Init /\ [][NextStatus]_vars

\* set_target_temp called with every kind of value.
NextRequests ==
    \/ set_target_temp(AllRequests)
    \/ save_config
    \/ revert_target
    \/ respond
    \/ Tick

SpecRequests == Init /\ [][NextRequests]_vars

\* The controller feeding ThermalAnalysis, with readings 400 s apart.
NextAdvisory ==
    \/ Control(AdvisoryReadings, HwWorks, TRUE)
    \/ Elapse(RunSteps, MaxFed)

SpecAdvisory == Init /\ [][NextAdvisory]_vars

\* The relay driven directly by its two methods.
NextRelay ==
    \/ call_turn_on
    \/ call_turn_off
    \/ Tick

SpecRelay == Init /\ [][NextRelay]_vars

\* The EventLogger on its own, with clients asking for the event log.
NextEvents ==
    \/ call_log_event
    \/ api_events(Limits)

SpecEvents == Init /\ [][NextEvents]_vars

\* ThermalAnalysis fed with readings.
NextThermal ==
    \/ add_temperature_reading(ThermalReadings, BOOLEAN, MaxReadings)
    \/ Elapse(SampleSteps, MaxReadings)

SpecThermal == Init /\ [][NextThermal]_vars

\* ThermalAnalysis fed with readings far enough apart to give rates.
NextRates ==
    \/ add_temperature_reading(ThermalReadings, BOOLEAN, MaxReadings)
    \/ Elapse(RateSteps, MaxReadings)

SpecRates == Init /\ [][NextRates]_vars

\* ThermalAnalysis fed with one long run: more readings than the sample
\* buffer holds.
NextRun ==
    \/ add_temperature_reading(RunTemps, RunRelay, RunLength)
    \/ Elapse(RunSteps, RunLength)

SpecRun == Init /\ [][NextRun]_vars

\* ThermalAnalysis fed by the control loop at the default
\* sensor_read_interval, every read succeeding: one sample each 5 seconds.
NextDefault ==
    \/ add_temperature_reading(RunTemps, RunRelay, DefaultRun)
    \/ Elapse(DefaultSteps, DefaultRun)

SpecDefault == Init /\ [][NextDefault]_vars

----
(* Properties of the controller on its own: Spec and FairSpec *)

\* The minimum dwell of the state the relay was in.
MinDwell(on) == IF on THEN relay_min_on_time ELSE relay_min_off_time

\* A tick has run control_heating and the relay is not in the state it had
\* when the tick began.
FlippedInTick == pc = "post" /\ tick.live /\ relay_state # tick.relay_state

\* C1: a control tick flips the relay only when it has been in its state for
\* at least relay_min_on_time (ON -> OFF) or relay_min_off_time (OFF -> ON):
\* the time in state seen by the flipping call, and the distance between the
\* new and the previous last_state_change, are at least the minimum dwell.
C1_DwellBeforeFlip ==
    FlippedInTick =>
        /\ decision.dwell >= MinDwell(tick.relay_state)
        /\ last_state_change - tick.last_state_change >= MinDwell(tick.relay_state)

\* C1 witness: a tick has flipped the relay ON -> OFF exactly at the minimum
\* ON time, after an earlier tick had flipped it ON.
C1_Witness ==
    /\ FlippedInTick
    /\ tick.relay_state
    /\ last_state_change - tick.last_state_change = relay_min_on_time
    /\ Len(events) >= 2

\* C2: a tick whose sensor read failed leaves relay_state and
\* last_state_change as they were and appends no event.
C2_NoReadingNoChange ==
    (pc = "post" /\ tick.live /\ ~tick.read_ok) =>
        /\ relay_state = tick.relay_state
        /\ last_state_change = tick.last_state_change
        /\ Len(events) = tick.nevents
        /\ decision = NoDecision

\* C2 witness: the read failed in a tick at which the last reading, the relay
\* (ON) and its dwell would have called for a flip.
C2_Witness ==
    /\ pc = "post" /\ tick.live /\ ~tick.read_ok
    /\ relay_state
    /\ current_temp_f = Some(DefaultTarget + hysteresis)
    /\ TimeInState >= relay_min_on_time
    /\ ~energy_saving_active

\* C3: in normal mode a reading exactly at target - hysteresis with the relay
\* OFF for at least relay_min_off_time makes the tick call turn_on, and one
\* exactly at target + hysteresis with the relay ON for at least
\* relay_min_on_time makes it call turn_off; the relay is then in the new
\* state whenever the hardware call went through.
C3_ClosedThresholds ==
    (decision.by = "tick" /\ ~decision.saving) =>
        /\ ( /\ ~decision.pre_state
             /\ Val(decision.temp) = decision.target - hysteresis
             /\ decision.dwell >= relay_min_off_time )
           => (decision.op = "turn_on" /\ (decision.hw = "ok" => relay_state))
        /\ ( /\ decision.pre_state
             /\ Val(decision.temp) = decision.target + hysteresis
             /\ decision.dwell >= relay_min_on_time )
           => (decision.op = "turn_off" /\ (decision.hw = "ok" => ~relay_state))

\* C3 witness: 71 degrees with target 72, the relay OFF for exactly
\* relay_min_off_time, and the tick has turned it ON.
C3_Witness ==
    /\ pc = "post" /\ decision.by = "tick" /\ ~decision.saving
    /\ ~decision.pre_state
    /\ decision.temp = Some(DefaultTarget - hysteresis)
    /\ decision.target = DefaultTarget
    /\ decision.dwell = relay_min_off_time
    /\ relay_state /\ last_state_change = now

\* C4: in energy-saving mode the tick calls turn_on exactly when the relay is
\* OFF for at least relay_min_off_time and the reading is at most
\* energy_saving_min_temp, and turn_off exactly when the relay is ON for at
\* least relay_min_on_time and the reading is at least
\* energy_saving_min_temp + 1, whatever the target and the hysteresis.
C4_EnergySavingFloor ==
    (decision.by = "tick" /\ decision.saving) =>
        /\ decision.op = "turn_on" <=>
              /\ ~decision.pre_state
              /\ Val(decision.temp) <= energy_saving_min_temp
              /\ decision.dwell >= relay_min_off_time
        /\ decision.op = "turn_off" <=>
              /\ decision.pre_state
              /\ Val(decision.temp) >= energy_saving_min_temp + 1
              /\ decision.dwell >= relay_min_on_time
        /\ decision.hw = "ok" => relay_state = (decision.op = "turn_on")

\* C4 witness: energy saving has turned the relay OFF at 61 degrees, far
\* below the normal-mode threshold target + hysteresis.
C4_Witness ==
    /\ pc = "post" /\ decision.by = "tick" /\ decision.saving
    /\ decision.op = "turn_off" /\ decision.hw = "ok"
    /\ decision.temp = Some(energy_saving_min_temp + 1)
    /\ decision.target = DefaultTarget
    /\ ~relay_state

\* C8: once running is false the control thread reaches the end of cleanup,
\* and there the relay is OFF unless cleanup's hardware call failed.
C8_ShutdownTurnsOff ==
    (~running) ~> (pc = "done" /\ (decision.hw # "fail" => ~relay_state))

\* C8 witness: cleanup has turned OFF a relay that had been ON for less than
\* relay_min_on_time.
C8_Witness ==
    /\ pc = "done" /\ ~running
    /\ decision.by = "cleanup" /\ decision.pre_state
    /\ decision.dwell < relay_min_on_time
    /\ ~relay_state

\* C9: after a turn_on or turn_off whose hardware call failed (or that made
\* none), relay_state and last_state_change are what they were before it.
C9_FailedCallKeepsRecord ==
    (decision.by # "none" /\ decision.hw # "ok") =>
        /\ relay_state = decision.pre_state
        /\ last_state_change = decision.pre_change

\* C9 witness: the hardware call of a tick's turn_on has failed.
C9_Witness ==
    /\ pc = "post" /\ decision.op = "turn_on" /\ decision.hw = "fail"
    /\ ~relay_state /\ last_state_change < now

\* A normal-mode tick has left the relay alone only because of the dwell:
\* OFF at a reading <= target - hysteresis, or ON at one >= target + hysteresis.
BlockedByDwell(on) ==
    /\ pc = "post" /\ decision.by = "tick" /\ decision.op = "none"
    /\ ~decision.saving /\ decision.pre_state = on
    /\ decision.dwell < MinDwell(on)
    /\ IF on THEN NormalTurnOff(Val(decision.temp), decision.target)
             ELSE NormalTurnOn(Val(decision.temp), decision.target)

\* One of the conditions of C17 no longer holds: the loop is stopping, a read
\* or a hardware call has failed, a reading has left the region that asks
\* for the flip, energy saving has taken over, or the clock of the model has
\* run out: no further tick can start, and the last one was still inside
\* the dwell.
Released(on) ==
    \/ ~running
    \/ pc = "post" /\ tick.live /\ ~tick.read_ok
    \/ decision.hw = "fail"
    \/ is_energy_saving
    \/ current_temp_f # None /\
          IF on THEN ~NormalTurnOff(Val(current_temp_f), target_temp_f)
                ELSE ~NormalTurnOn(Val(current_temp_f), target_temp_f)
    \/ now = MaxTime /\ pc \in {"sleep", "loop"} /\ ~SensorDue /\ tick.deferred

\* C17: a flip that a normal-mode tick withheld only because of the dwell is
\* made by a later tick, as long as ticks go on, reads and hardware calls
\* succeed and the readings keep asking for it; and no normal-mode tick
\* withholds a flip the readings ask for once the dwell has been reached.
C17_DeferredNotDropped ==
    /\ BlockedByDwell(FALSE) ~> (relay_state \/ Released(FALSE))
    /\ BlockedByDwell(TRUE) ~> (~relay_state \/ Released(TRUE))
    /\ [](\A on \in BOOLEAN :
            ( /\ decision.by = "tick" /\ ~decision.saving
              /\ decision.pre_state = on
              /\ decision.dwell >= MinDwell(on)
              /\ IF on THEN NormalTurnOff(Val(decision.temp), decision.target)
                       ELSE NormalTurnOn(Val(decision.temp), decision.target) )
            => decision.op = (IF on THEN "turn_off" ELSE "turn_on"))

\* C17 witness: a tick has switched the relay OFF at 73 degrees, after the
\* tick before it, inside the ON dwell, had left it ON.
C17_Witness ==
    /\ FlippedInTick /\ ~relay_state /\ tick.deferred
    /\ decision.temp = Some(DefaultTarget + hysteresis) /\ ~decision.saving
    /\ decision.dwell >= relay_min_on_time

\* C18: a tick for which check_energy_saving_mode returned True calls turn_on,
\* or leaves the relay ON having found it OFF, only at a reading
\* <= energy_saving_min_temp.
C18_SuppressedUnlessFloor ==
    ( /\ decision.by = "tick" /\ decision.saving
      /\ (decision.op = "turn_on" \/ (relay_state /\ ~decision.pre_state)) )
    => Val(decision.temp) <= energy_saving_min_temp

\* C18 witness: suppression is on at 61 degrees, ten below the normal-mode
\* threshold, the relay has been OFF for the minimum OFF time, and the tick
\* has left it OFF.
C18_Witness ==
    /\ pc = "post" /\ decision.by = "tick" /\ decision.saving
    /\ decision.temp = Some(energy_saving_min_temp + 1)
    /\ NormalTurnOn(Val(decision.temp), decision.target)
    /\ ~decision.pre_state /\ decision.dwell >= relay_min_off_time
    /\ decision.op = "none" /\ ~relay_state

\* C19 as claimed: a tick appends an event only when it has changed the relay
\* state, and the event names the new state.  It fails: turn_on swallows a
\* failed hardware call (lines 461-472) and control_heating logs "on" all the
\* same (lines 805-807, 828-830).
C19_EventMeansChange ==
    (pc \in {"post", "cleanup"} /\ tick.live /\ Len(events) > tick.nevents) =>
        /\ Len(events) = tick.nevents + 1
        /\ relay_state # tick.relay_state
        /\ events[Len(events)] = (IF relay_state THEN "on" ELSE "off")

\* The relay has been switched since construction: last_state_change is
\* written by a successful hardware call only (lines 459, 481).
HasFlipped == last_state_change # Epoch

\* C36 as claimed (SpecShutdown): whenever the controller is between two
\* ticks or has shut down, and the relay has been switched at least once, the
\* most recently appended event names the recorded relay state.  It fails:
\* cleanup calls relay.turn_off() (line 965) and appends no event.
C36_LastEventAgrees ==
    (pc \in {"loop", "sleep", "done"} /\ HasFlipped) =>
        /\ events # <<>>
        /\ events[Len(events)] = (IF relay_state THEN "on" ELSE "off")

\* C36, the turn-off that is not logged: cleanup found the relay ON and has
\* switched it OFF, and the last event is still "on".
C36_ShutdownNotLogged ==
    /\ pc = "done" /\ decision.by = "cleanup" /\ decision.op = "turn_off"
    /\ decision.hw = "ok" /\ decision.pre_state /\ ~relay_state
    /\ events = <<"on">>

\* C20 as claimed: after a turn_on or turn_off of a tick whose hardware call
\* failed, the control loop goes on to the end of the tick and to later
\* ticks.  It fails: turn_off re-raises the failure (line 485), nothing in
\* control_heating catches it, and run's except clause (lines 954-957) ends
\* the loop in cleanup.
C20_FailureEndsOnlyTick ==
    (decision.by = "tick" /\ decision.hw = "fail") => pc = "post"

\* C14 as claimed: after an outside temperature fetch has failed, and until
\* one succeeds, every evaluation of check_energy_saving_mode leaves
\* energy_saving_active at the value it had when the fetch failed.  It
\* fails: update_outside_temperature keeps the last fetched value (lines
\* 744-749), and the evaluations go on deciding from it.
C14_FetchFailureKeepsActive ==
    (ev.done /\ fetch.failed) => energy_saving_active = fetch.active

\* C23: a normal-mode tick calls turn_off only at a reading
\* >= target + hysteresis and turn_on only at a reading <= target - hysteresis;
\* at a reading strictly inside the band it makes no call, and relay_state
\* and last_state_change are what they were.
C23_FlipsOnlyAtEdges ==
    (decision.by = "tick" /\ ~decision.saving) =>
        LET temp == Val(decision.temp) IN
        /\ decision.op = "turn_off" => temp >= decision.target + hysteresis
        /\ decision.op = "turn_on" => temp <= decision.target - hysteresis
        /\ (decision.target - hysteresis < temp /\ temp < decision.target + hysteresis)
              => /\ decision.op = "none"
                 /\ relay_state = decision.pre_state
                 /\ last_state_change = decision.pre_change

\* C23 witness: 72 degrees with target 72 and the relay ON for the minimum ON
\* time; the tick has left it ON.
C23_Witness ==
    /\ pc = "post" /\ decision.by = "tick" /\ ~decision.saving
    /\ decision.temp = Some(DefaultTarget) /\ decision.target = DefaultTarget
    /\ decision.pre_state /\ decision.dwell >= relay_min_on_time
    /\ decision.op = "none" /\ relay_state /\ last_state_change = decision.pre_change

\* C24: an evaluation of check_energy_saving_mode with no override active and
\* both temperatures known returns True and leaves energy_saving_active True
\* when outside_temp >= current_temp_f, equal temperatures included, and
\* otherwise returns False and leaves energy_saving_active False.
C24_SuppressedIffOutsideWarmer ==
    (ev.done /\ ~ev.override /\ outside_temp # None /\ current_temp_f # None) =>
        /\ is_energy_saving = (Val(outside_temp) >= Val(current_temp_f))
        /\ energy_saving_active = (Val(outside_temp) >= Val(current_temp_f))

\* C24 witness: 61 degrees inside and outside, and the evaluation has turned
\* suppression on.
C24_Witness ==
    /\ ev.done /\ ~ev.override
    /\ outside_temp = Some(61) /\ current_temp_f = Some(61)
    /\ is_energy_saving /\ energy_saving_active /\ ~ev.before

----
(* Properties of set_target_temp on its own: SpecRequests *)

\* set_target_temp has been called and its response has not been sent.
InSetTarget == pcH \in {"st_save", "st_revert", "st_return"}

\* C21: a call of set_target_temp with a text that is not a number, or with a
\* number below 50 or above 90, returns False, leaves config["target_temp_f"]
\* as it was and does not call save_config; a call with 50 or 90 writes the
\* value to the configuration and calls save_config, and the value is in
\* force when the call returns True.
C21_ClosedRange ==
    InSetTarget =>
        IF temp_f_arg \in {<<"5", "0">>, <<"9", "0">>}
        THEN /\ pcH = "st_save" => target_temp_f = float(temp_f_arg)
             /\ pcH = "st_return" =>
                   (saved /\ (result => target_temp_f = float(temp_f_arg)))
        ELSE /\ pcH = "st_return" /\ result = FALSE
             /\ target_temp_f = target_before
             /\ ~saved

\* C21 witness: 90 has been accepted and saved over an accepted 50.
C21_Witness ==
    /\ pcH = "st_return" /\ temp_f_arg = <<"9", "0">>
    /\ result /\ saved
    /\ target_before = MinSetpoint /\ target_temp_f = MaxSetpoint

----
(* Properties of the relay on its own: SpecRelay *)

\* C11: turn_on called while the relay is recorded ON, and turn_off called
\* while it is recorded OFF, leave relay_state and last_state_change as they
\* were: the dwell clock stays at the instant of the call that switched.
C11_SameStateNoOp ==
    /\ (decision.op = "turn_on" /\ decision.pre_state) =>
          (relay_state /\ last_state_change = decision.pre_change)
    /\ (decision.op = "turn_off" /\ ~decision.pre_state) =>
          (~relay_state /\ last_state_change = decision.pre_change)

\* C11 witness: a second turn_on, later than the one that switched the relay
\* ON, has left the dwell clock at the first call's instant.
C11_Witness ==
    /\ decision.by = "caller" /\ decision.op = "turn_on" /\ decision.pre_state
    /\ relay_state
    /\ last_state_change > Epoch /\ last_state_change < now

----
(* Properties of ThermalAnalysis: SpecThermal *)

\* The elements of a sequence.
Range(q) == {q[k] : k \in 1 .. Len(q)}

\* Heating starts at sample i with 60 degrees, and sample j of its scan
\* window, 600 s later and with the relay still on, is the first that reads
\* higher: 62 degrees.
Window300(i, j) ==
    /\ i \in 2 .. Len(temperature_data)
    /\ j \in Window(temperature_data, i, HeatingWindow)
    /\ ~temperature_data[i-1].heating_on /\ temperature_data[i].heating_on
    /\ temperature_data[i].temperature_f = 60
    /\ temperature_data[j].temperature_f = 62
    /\ temperature_data[j].heating_on
    /\ temperature_data[j].timestamp - temperature_data[i].timestamp = 600
    /\ \A k \in i .. j - 1 : temperature_data[k].temperature_f = 60

\* C12 as claimed: once _calculate_rates has run on samples with such a
\* window, the rate 600 / 2 = 300 s per degree is among the recorded heating
\* rates.  It fails: line 279 tests 300 < rate, and 300 is not recorded.
C12_Rate300Accepted ==
    (Len(temperature_data) >= 3
       /\ \E i, j \in 1 .. Len(temperature_data) : Window300(i, j))
    => Frac(300, 1) \in Range(heating_rates)

\* The heating starts of the buffer: the relay OFF at the sample before, ON at
\* this one.
HeatingStarts ==
    {i \in 2 .. Len(temperature_data) :
        ~temperature_data[i-1].heating_on /\ temperature_data[i].heating_on}

\* Sample j shows a rise of more than 0.5 degrees over more than 60 seconds
\* since sample i.
Rise(i, j) ==
    /\ 2 * (temperature_data[j].temperature_f - temperature_data[i].temperature_f) > 1
    /\ temperature_data[j].timestamp - temperature_data[i].timestamp > 60

\* The first sample of the window of heating start i that shows such a rise
\* gives a rate outside [300, 3600].
FirstRiseImplausible(i) ==
    \E j \in Window(temperature_data, i, HeatingWindow) :
        /\ Rise(i, j)
        /\ \A k \in i .. j - 1 : ~Rise(i, k)
        /\ LET time_change == temperature_data[j].timestamp
                                  - temperature_data[i].timestamp
               temp_change == temperature_data[j].temperature_f
                                  - temperature_data[i].temperature_f
           IN time_change < 300 * temp_change \/ time_change > 3600 * temp_change

\* C26 as claimed: when the first sample that shows a rise gives, for every
\* heating start of the buffer, a rate outside the plausible range, no scan
\* has recorded a heating rate.  It fails: the break of line 281 is inside
\* the range test of line 279, so after a rate outside the range the scan
\* goes on to the later samples of the window and records the first rate
\* that lies inside.
C26_OnlyFirstRiseUsed ==
    (HeatingStarts # {} /\ \A i \in HeatingStarts : FirstRiseImplausible(i))
    => heating_rates = <<>>

----
(* Properties of the scan windows: SpecThermal and SpecRun *)

\* The cooling starts of the buffer: the relay ON at the sample before, OFF
\* at this one.
CoolingStarts ==
    {i \in 2 .. Len(temperature_data) :
        temperature_data[i-1].heating_on /\ ~temperature_data[i].heating_on}

\* Sample j shows a fall of more than 0.5 degrees over more than 120 seconds
\* since sample i.
Fall(i, j) ==
    /\ 2 * (temperature_data[i].temperature_f - temperature_data[j].temperature_f) > 1
    /\ temperature_data[j].timestamp - temperature_data[i].timestamp > 120

\* elapsed / delta between samples i and j.
RateBetween(i, j) ==
    LET time_change == temperature_data[j].timestamp - temperature_data[i].timestamp
        temp_change == temperature_data[j].temperature_f - temperature_data[i].temperature_f
    IN Frac(time_change, IF temp_change < 0 THEN -temp_change ELSE temp_change)

\* Some later sample of the window of cooling start i shows a fall whose
\* rate lies in [600, 7200].
CoolsPlausibly(i) ==
    \E j \in Window(temperature_data, i, CoolingWindow) :
        /\ Fall(i, j)
        /\ 600 * RateBetween(i, j).den <= RateBetween(i, j).num
        /\ RateBetween(i, j).num <= 7200 * RateBetween(i, j).den

\* C28 as claimed: a cooling rate has been recorded exactly when the buffer
\* holds a cooling start with a later sample in its window that shows a fall
\* of more than 0.5 degrees over more than 120 seconds at a rate in the
\* closed range [600, 7200].  It fails at the ends of the range: line 294
\* tests 600 < rate < 7200.
C28_CoolingRangeClosed ==
    (\E i \in CoolingStarts : CoolsPlausibly(i)) <=> cooling_rates # <<>>

\* C27 as claimed: when the sample 10 positions after a heating start is the
\* first to show a rise, its rate (inside the plausible range) is among the
\* recorded heating rates, and likewise for the sample 15 positions after a
\* cooling start.  It fails: range(i, min(i+10, len(data))) (line 272) runs
\* from the start sample itself to the 9th sample after it, and line 287
\* to the 14th.
C27_WindowOfTen ==
    /\ \A i \in HeatingStarts :
          ( /\ i + HeatingWindow <= Len(temperature_data)
            /\ Rise(i, i + HeatingWindow)
            /\ \A k \in i .. i + HeatingWindow - 1 : ~Rise(i, k)
            /\ 300 * RateBetween(i, i + HeatingWindow).den
                  < RateBetween(i, i + HeatingWindow).num
            /\ RateBetween(i, i + HeatingWindow).num
                  < 3600 * RateBetween(i, i + HeatingWindow).den )
          => RateBetween(i, i + HeatingWindow) \in Range(heating_rates)
    /\ \A i \in CoolingStarts :
          ( /\ i + CoolingWindow <= Len(temperature_data)
            /\ Fall(i, i + CoolingWindow)
            /\ \A k \in i .. i + CoolingWindow - 1 : ~Fall(i, k)
            /\ 600 * RateBetween(i, i + CoolingWindow).den
                  < RateBetween(i, i + CoolingWindow).num
            /\ RateBetween(i, i + CoolingWindow).num
                  < 7200 * RateBetween(i, i + CoolingWindow).den )
          => RateBetween(i, i + CoolingWindow) \in Range(cooling_rates)

\* C27, the sample 9 positions after a heating start: it is the first to
\* show a rise, and its rate, 3600 s for 2 degrees, has been recorded.
C27_NinthSampleUsed ==
    \E i \in HeatingStarts :
        /\ i + 9 <= Len(temperature_data)
        /\ Rise(i, i + 9)
        /\ \A k \in i .. i + 8 : ~Rise(i, k)
        /\ RateBetween(i, i + 9) \in Range(heating_rates)

\* The last n elements of q, or all of q when it has fewer.
LastN(q, n) == SubSeq(q, Len(q) - Min(n, Len(q)) + 1, Len(q))

\* C29: after any sequence of add_temperature_reading calls the sample buffer
\* holds at most 50 samples, and they are the last ones handed in, in the
\* order they came; each of the two rate histories holds at most 20 rates.
C29_BoundedBuffers ==
    /\ Len(temperature_data) <= max_samples
    /\ temperature_data = LastN(readings, max_samples)
    /\ Len(heating_rates) <= MaxRates
    /\ Len(cooling_rates) <= MaxRates

\* C29 witness: 52 readings have been handed in, the two oldest are gone from
\* the buffer, and the heating-rate history is full.
C29_Witness ==
    /\ Len(readings) = max_samples + 2
    /\ Len(temperature_data) = max_samples
    /\ temperature_data[1] = readings[3]
    /\ readings[1] # readings[3]
    /\ Len(heating_rates) = MaxRates

----
(* Properties of the published estimates: SpecRates *)

\* The rate m times the number of rates is their sum.
IsMean(m, rates) ==
    LET total == FracSum(rates)
    IN m.num * total.den * Len(rates) = total.num * m.den

\* What get_thermal_data may return for one direction: no estimate below
\* three retained rates, their mean from three on.
EstimateOf(estimate, rates) ==
    /\ Len(rates) <= MaxRates
    /\ IF Len(rates) < 3 THEN estimate = None
       ELSE estimate # None /\ IsMean(Val(estimate), rates)

\* C22: for each direction the published estimate is None while fewer than 3
\* rates have been accepted, and from then on it is the arithmetic mean of the
\* retained rates (at most 20); get_thermal_data, which reads the estimate and
\* the number of rates under the lock, never returns an estimate with a
\* number of rates below 3.
C22_EstimateIsMean ==
    /\ EstimateOf(heating_rate_seconds_per_degree, heating_rates)
    /\ EstimateOf(cooling_rate_seconds_per_degree, cooling_rates)

\* C22 witness: the heating estimate is the mean of four rates that are not
\* all equal, and lies strictly between the smallest and the largest.
C22_Witness ==
    /\ Len(heating_rates) = 4
    /\ heating_rates[1] # heating_rates[4]
    /\ heating_rate_seconds_per_degree # None
    /\ \A k \in 1 .. 4 : heating_rates[k] # Val(heating_rate_seconds_per_degree)

----
(* Properties of the event log: SpecEvents *)

\* C37 as claimed: the list get_events(limit) has returned holds at most
\* limit events, namely the min(limit, number stored) most recently appended
\* ones, newest first, and the history holds at most 500 events.  It fails
\* for limit = 0: the slice [-limit:] at line 228 is then [0:], the whole
\* history.
C37_NewestUpToLimit ==
    /\ Len(events) <= MaxEvents
    /\ listing # None =>
          LET limit == Val(listing).limit
              got == Val(listing).events
          IN /\ Len(got) <= limit
             /\ Len(got) = Min(limit, Len(events))
             /\ \A k \in 1 .. Len(got) : got[k] = events[Len(events) + 1 - k]

\* C37, the request that gets everything: get_events(0) on a full history
\* has returned all 500 events.
C37_LimitZeroReturnsAll ==
    /\ listing # None /\ Val(listing).limit = 0
    /\ Len(events) = MaxEvents /\ events[1] = "off"
    /\ Len(Val(listing).events) = MaxEvents

----
(* Properties of ThermalAnalysis at the default sampling: SpecDefault *)

\* A run of n samples DefaultSpacing seconds apart: the relay is in state first before
\* sample s and in the other state from s on; the temperature is RunStart
\* before sample m and RunStart + change from m on.
FiveSecondRun(n, first, s, m, change) ==
    [k \in 1 .. n |->
        [timestamp |-> Epoch + DefaultSpacing * (k - 1),
         temperature_f |-> IF k < m THEN RunStart ELSE RunStart + change,
         heating_on |-> IF k < s THEN first ELSE ~first]]

\* The runs of at most max samples.
FiveSecondRuns(max) ==
    {FiveSecondRun(n, first, s, m, change) :
        n \in 3 .. max, first \in BOOLEAN,
        s \in 2 .. max, m \in 2 .. max, change \in RunChanges}

\* C34 as claimed: once the loop has sampled for DefaultRun samples, there is
\* among the runs of samples 5 seconds apart that are no longer than that one
\* after which _calculate_rates has accepted a heating rate, and one after
\* which it has accepted a cooling rate.  It fails: the window of a heating
\* start ends 9 samples, 45 seconds, after it (line 272) and a rate needs
\* time_change > 60 (line 277); the cooling window ends after 70 seconds
\* (line 287) and needs more than 120 (line 292).
C34_SomeRunAccepts ==
    Len(readings) = DefaultRun =>
        /\ \E run \in FiveSecondRuns(Len(readings)) : ScanHeating(run, 2, <<>>) # <<>>
        /\ \E run \in FiveSecondRuns(Len(readings)) : ScanCooling(run, 2, <<>>) # <<>>

\* What holds instead of C34 in every state of a run at the default spacing:
\* no rate has been accepted and no estimate published.
C34_NothingAccepted ==
    /\ heating_rates = <<>> /\ cooling_rates = <<>>
    /\ heating_rate_seconds_per_degree = None
    /\ cooling_rate_seconds_per_degree = None

\* C34, the run that should have given a heating rate: heating started at the
\* second sample, the room is 2 degrees warmer from the third sample on, the
\* whole window of the start has been sampled, and nothing is accepted.
C34_WarmingRunNoRate ==
    /\ Len(temperature_data) = DefaultRun
    /\ ~temperature_data[1].heating_on /\ temperature_data[2].heating_on
    /\ temperature_data[2].temperature_f = RunStart
    /\ \A k \in 3 .. DefaultRun :
          /\ temperature_data[k].temperature_f = RunStart + 2
          /\ temperature_data[k].timestamp - temperature_data[k-1].timestamp =
                DefaultSpacing
    /\ heating_rates = <<>> /\ heating_rate_seconds_per_degree = None

----
(* Properties of the accepted rates: SpecRates *)

\* The off->on (on = TRUE) or on->off (on = FALSE) transitions that have
\* appeared in the stream of readings handed in.
TransitionsTo(on) ==
    {i \in 2 .. Len(readings) :
        readings[i-1].heating_on # on /\ readings[i].heating_on = on}

\* C33 as claimed: while no rate has been evicted (fewer than 20 retained),
\* the heating rates appended so far are at most as many as the off->on
\* transitions that have appeared in the readings, and the cooling rates at
\* most as many as the on->off transitions.  It fails: every call of
\* add_temperature_reading runs _calculate_rates over the whole buffer
\* (line 262), so a transition that is still in the buffer has its rate
\* appended again by each later call (lines 280, 295).
C33_OneRatePerTransition ==
    /\ Len(heating_rates) < MaxRates =>
          Len(heating_rates) <= Cardinality(TransitionsTo(TRUE))
    /\ Len(cooling_rates) < MaxRates =>
          Len(cooling_rates) <= Cardinality(TransitionsTo(FALSE))

\* C33, the estimate published from one window: the readings hold a single
\* off->on transition, and three copies of its rate have been accepted and
\* averaged.
C33_PublishedFromOneStart ==
    /\ Cardinality(TransitionsTo(TRUE)) = 1
    /\ Len(heating_rates) = 3
    /\ heating_rates[1] = heating_rates[2] /\ heating_rates[2] = heating_rates[3]
    /\ heating_rate_seconds_per_degree = Some(heating_rates[1])

----
(* Properties of the controller feeding ThermalAnalysis: SpecAdvisory *)

\* The call on the relay that the relay state, its time in state, the
\* suppression flag, the reading and the target ask for.
CallFor(on, dwell, saving, temp, tgt) ==
    IF saving
    THEN IF ~on /\ temp <= energy_saving_min_temp /\ dwell >= relay_min_off_time
         THEN "turn_on"
         ELSE IF on /\ temp >= energy_saving_min_temp + 1 /\ dwell >= relay_min_on_time
              THEN "turn_off" ELSE "none"
    ELSE IF on
         THEN (IF temp >= tgt + hysteresis /\ dwell >= relay_min_on_time
               THEN "turn_off" ELSE "none")
         ELSE (IF temp <= tgt - hysteresis /\ dwell >= relay_min_off_time
               THEN "turn_on" ELSE "none")

\* C30: the rate estimator is advisory.  Whatever ThermalAnalysis holds, the
\* call a tick makes on the relay is the one its reading, the outside
\* temperature, the target, the relay state and the time in state ask for,
\* and the tick appends the event of that call and no other; so two runs with
\* the same readings, times, outside temperatures and API calls make the
\* same relay decisions and log the same events.
C30_EstimatorIsAdvisory ==
    (pc = "post" /\ decision.by = "tick") =>
        /\ decision.saving =
              (outside_temp # None /\ Val(outside_temp) >= Val(decision.temp))
        /\ decision.op = CallFor(decision.pre_state, decision.dwell, decision.saving,
                                 Val(decision.temp), decision.target)
        /\ events = SubSeq(events, 1, tick.nevents)
                       \o (CASE decision.op = "turn_on" -> <<"on">>
                             [] decision.op = "turn_off" -> <<"off">>
                             [] OTHER -> <<>>)

\* C30 witness: ThermalAnalysis has published a heating rate, and a tick at
\* 72 degrees with the relay ON past its minimum ON time has left it ON.
C30_Witness ==
    /\ pc = "post" /\ decision.by = "tick"
    /\ heating_rate_seconds_per_degree # None
    /\ Len(heating_rates) >= 3 /\ Len(temperature_data) = MaxFed
    /\ decision.temp = Some(DefaultTarget) /\ decision.pre_state
    /\ decision.dwell >= relay_min_on_time
    /\ decision.op = "none" /\ relay_state

----
(* Properties of the override: SpecOverride *)

\* C5 as claimed: an evaluation of check_energy_saving_mode that begins
\* after set_energy_saving_override has returned with start time T, at a
\* time before T + energy_saving_override_duration, returns False and leaves
\* energy_saving_active False.  It fails: a tick that reads the flag set by
\* line 777 against the previous start time clears it at line 757, and the
\* call then returns with the override already cancelled.
C5_OverrideWindow ==
    (ev.done /\ ev.window) => (~is_energy_saving /\ ~ev.active)

\* What an evaluation that found the override expired must have done: the
\* override is cleared, and with both temperatures known suppression is on
\* exactly when the outside is at least as warm as the inside.
DecidedFromTemperatures ==
    /\ ~ev.override
    /\ BothKnown => /\ is_energy_saving = OutsideWarmer
                    /\ ev.active = OutsideWarmer

\* C6 as claimed: every evaluation that finds the override set at a time
\* >= override_start_time + energy_saving_override_duration clears it and
\* decides suppression from the temperatures.  It fails when
\* set_energy_saving_override runs during the evaluation, which nothing in
\* the code prevents: the flag it sets after line 757 is seen at line 761
\* and the result is False whatever the temperatures are.
C6_ExpiryAlways ==
    (ev.done /\ ev.expired) => DecidedFromTemperatures

\* C6 on the evaluations during which no step of
\* set_energy_saving_override runs: the expired override is cleared and the
\* temperatures decide.
C6_ExpiryUndisturbed ==
    (ev.done /\ ev.expired /\ ~ev.disturbed) => DecidedFromTemperatures

\* C6 witness: an override that had been activated expired exactly at the
\* boundary, and the evaluation has resumed suppression.
C6_Witness ==
    /\ ev.done /\ ev.expired /\ ~ev.disturbed /\ ev.boundary
    /\ ov = Some(override_start_time) /\ pcH = "idle"
    /\ BothKnown /\ OutsideWarmer
    /\ is_energy_saving /\ energy_saving_active /\ ~energy_saving_override

\* C25 as claimed: after a call of set_energy_saving_override that began while
\* the override of the call before it was in force and that returned with
\* start time T2, the override is set with start time T2 at every time before
\* T2 + energy_saving_override_duration.  It fails: an evaluation that found
\* the flag of the first call set against the start time from before that
\* call clears it at line 757 after the second call has run line 777.
C25_RearmedUntilExpiry ==
    (rearm = "done" /\ now < Val(ov) + energy_saving_override_duration) =>
        (energy_saving_override /\ override_start_time = Val(ov))

\* C25, the case of a second call that no evaluation runs into: the override
\* is set with the later start time and suppression is off.
C25_Rearmed ==
    /\ rearm = "done" /\ pcH = "idle" /\ pc = "sleep"
    /\ energy_saving_override /\ override_start_time = Val(ov)
    /\ override_start_time = now /\ now > Epoch
    /\ ~energy_saving_active

\* C31 as claimed: once set_energy_saving_override has returned with start
\* time T, and until the time reaches T + energy_saving_override_duration
\* (before which no evaluation can find the override expired), the override
\* is set with override_start_time = T, whatever the control thread was
\* doing during the call.  It fails: lines 777-779 are written without a
\* lock, and a tick that reads the flag of line 777 against the start time
\* from before line 778 clears it at line 757.
C31_ActivationAtomic ==
    (pcH = "idle" /\ ov # None /\ now < Val(ov) + energy_saving_override_duration) =>
        (energy_saving_override /\ override_start_time = Val(ov))

\* C31, the activation that is lost: the call has just returned at time T
\* while an evaluation ran into it, and the override is already cleared.
C31_LostActivation ==
    /\ pcH = "idle" /\ ov = Some(now) /\ override_start_time = now
    /\ ev.live /\ ev.disturbed
    /\ ~energy_saving_override

\* C7 as claimed, at the states a status request can observe (the HTTP
\* thread is not itself inside set_energy_saving_override): the override and
\* suppression are never both on.  It fails: a tick that has read the flag
\* False at line 761 sets energy_saving_active at line 768 after the override
\* call has run.
C7_NeverBoth ==
    pcH = "idle" => ~(energy_saving_override /\ energy_saving_active)

\* C13: an evaluation that ends with no override active and with the outside
\* or the inside temperature unknown leaves energy_saving_active at the value
\* it had when the evaluation began, and returns that value to
\* control_heating.
C13_UnknownKeepsActive ==
    (ev.done /\ ~ev.override /\ ~BothKnown) =>
        /\ energy_saving_active = ev.before
        /\ is_energy_saving = ev.before

\* C13 witness: an evaluation with a reading of 61 degrees and no outside
\* temperature, after an override has come and gone.
C13_Witness ==
    /\ ev.done /\ ~ev.override /\ ~ev.disturbed
    /\ outside_temp = None /\ current_temp_f = Some(61)
    /\ ov # None /\ ~energy_saving_override
    /\ ~energy_saving_active /\ ~is_energy_saving

----
(* Properties of the status reader: SpecStatus *)

\* C15 as claimed: the temperature, the relay flag and the energy-saving flag
\* get_status returns are those of one completed tick: the state the last
\* completed tick had left when the call began, or the state a tick that
\* completed during the call left.  It fails: get_status holds no lock while
\* it reads, and the tick writes between two reads.
C15_NoTornStatus ==
    pcH = "gs_return" => status \in seen

\* C15, the case of two ticks mixed: get_status returns 72 degrees with the
\* relay ON, the temperature the last completed tick left and the relay flag
\* of the running tick, which read 61 degrees and switched the relay ON for
\* the first time; the controller has never been in that state.
C15_MixedTicks ==
    /\ pcH = "gs_return"
    /\ status.temp = Some(72) /\ status.relay
    /\ tick.live /\ tick.temp = Some(72) /\ ~tick.relay_state
    /\ current_temp_f = Some(61) /\ relay_state /\ events = <<"on">>

----
(* Properties of the setpoint: SpecSetpoint *)

\* C10: when save_config has failed on all its attempts, set_target_temp
\* returns False and config["target_temp_f"] is what it was before the call.
C10_FailedSaveRollsBack ==
    (pcH = "st_return" /\ attempt = MaxRetries) =>
        /\ result = FALSE
        /\ target_temp_f = target_before

\* C16 as claimed: the target a tick decides with is the setpoint that was in
\* force when the tick began; a setpoint written while the tick is in
\* progress waits for the next tick.  It fails: control_heating reads the
\* target at lines 792-793, after the sensor read and the energy-saving
\* evaluation, and takes whatever set_target_temp has written by then.
C16_SetpointNextTick ==
    (tick.live /\ decision.by = "tick") => decision.target = tick.target_temp_f

\* C32 as claimed: a tick that flips the relay in normal mode has read a
\* target that is the loaded one or one whose save succeeded, never one that
\* set_target_temp rolls back.  It fails: set_target_temp writes the new value
\* into the configuration at line 872 before save_config is called at line
\* 876, control_heating reads it at line 793, and line 883 takes it back when
\* the save has failed.
C32_FlipsOnSavedTarget ==
    (decision.by = "tick" /\ relay_state # decision.pre_state /\ ~decision.saving) =>
        tick.unsaved # "rolled_back"

\* C32, the flip that only the rolled-back target explains: at 61 degrees the
\* relay was ON under the target 72; the tick read 50, which was never saved,
\* and turned the relay off; 72 is back in the configuration.
C32_FlipOnRolledBackTarget ==
    /\ decision.by = "tick" /\ decision.op = "turn_off" /\ ~relay_state
    /\ ~decision.saving /\ decision.temp = Some(61)
    /\ decision.target = MinSetpoint /\ tick.unsaved = "rolled_back"
    /\ ~NormalTurnOff(61, DefaultTarget)
    /\ pcH = "st_return" /\ attempt = MaxRetries /\ target_temp_f = DefaultTarget

\* C35 as claimed: a tick that turns the relay ON in energy-saving mode has a
\* reading that the normal-mode rule would turn ON for as well, under the
\* target the tick has read.  It fails: the energy-saving rule compares the
\* reading with energy_saving_min_temp (line 802), which no code relates to
\* the target, and set_target_temp accepts targets down to 50 (line 864).
C35_SavingHeatsNoMore ==
    (decision.by = "tick" /\ decision.op = "turn_on" /\ decision.saving) =>
        NormalTurnOn(Val(decision.temp), decision.target)

\* C35, the floor above the setpoint: the target 50 has been set and saved;
\* at 60 degrees, with the outside at least as warm, the tick turns the relay
\* ON, which normal mode does only at 49 degrees or below.
C35_FloorAboveSetpoint ==
    /\ decision.by = "tick" /\ decision.op = "turn_on" /\ decision.saving
    /\ relay_state /\ ~decision.pre_state
    /\ decision.temp = Some(energy_saving_min_temp)
    /\ decision.target = MinSetpoint /\ target_temp_f = MinSetpoint
    /\ pcH = "idle" /\ tick.unsaved = "no"
    /\ ~NormalTurnOn(energy_saving_min_temp, MinSetpoint)

\* C10 witness: the setpoint 50 was written over 72, all the saves failed and
\* 72 is back.
C10_Witness ==
    /\ pcH = "st_return" /\ attempt = MaxRetries
    /\ temp_f_float = MinSetpoint /\ InRange(temp_f_float)
    /\ target_before = DefaultTarget
    /\ target_temp_f = DefaultTarget /\ result = FALSE

====
